---- MODULE Spec2Model ----
(***************************************************************************)
(* Model of the three d3 widgets of microfrontend_js_lib: Gantt,           *)
(* StackedHorizontalBar and CalendarDensity.  One widget instance bound to *)
(* one host container is modelled; its class is chosen at construction.    *)
(* Instances share no state (each owns its record list, loading flag and   *)
(* DOM nodes), so one instance of each class covers the library.           *)
(*                                                                         *)
(* The JavaScript run-time is single threaded: every action below is one   *)
(* task of the event loop (a host call, a network event) run to            *)
(* completion, or one micro-task (a promise reaction), which runs before   *)
(* any further task.                                                       *)
(*                                                                         *)
(* Five specifications share the actions: Spec follows the lifecycle of    *)
(* an instance (requests, record list, DOM nodes); SpecFetch follows the   *)
(* data path for one API body out of a wide family; SpecGeometry follows   *)
(* the marks of the charts, drawn and zoomed, for small record lists;      *)
(* SpecCalendar follows the cells and the modal of the calendar in pages   *)
(* of several time zones; SpecYear follows its year next to the year 0.    *)
(***************************************************************************)
EXTENDS Integers, Sequences, FiniteSets, TLC

VARIABLES
    kind,         \* class of the instance
    prefixeAPI,   \* UIElement.prefixeAPI
    datas,        \* this.datas, the record list
    isLoading,    \* this.isLoading
    year,         \* CalendarDensity.year (0 for the other classes)
    inflight,     \* network requests issued and not yet settled
    microtasks,   \* pending .then(() => this.render()) reactions
    clientWidth,  \* this.parent.clientWidth
    clientHeight, \* this.parent.clientHeight
    children,     \* children of this.parent, in document order
    tooltips,     \* tooltip nodes of this instance mounted on document.body
    modals,       \* modal nodes of this instance mounted on document.body
    tooltipRef,   \* CalendarDensity.tooltip is not null
    modalRef,     \* CalendarDensity.modal is not null
    destroyed,    \* the host has called destroy() and dropped the instance
    lastOp,       \* the operation that ran last
    outcome,      \* how it completed
    env,          \* what surrounds the instance: the bodies the API answers
                  \* with, the time zone of the page, the years its user
                  \* moves in
    marks,        \* the marks of the chart drawn last: bars, stacked rects
                  \* or the cells of the calendar
    baseScale,    \* the continuous scale render() built for that chart
    transform,    \* the zoom transform of that chart
    zoomEvents,   \* the number of zoom events that chart has received
    modalView     \* what the modal the instance holds shows

vars == <<kind, prefixeAPI, datas, isLoading, year, inflight, microtasks,
          clientWidth, clientHeight, children, tooltips, modals,
          tooltipRef, modalRef, destroyed, lastOp, outcome, env, marks,
          baseScale, transform, zoomEvents, modalView>>

-----------------------------------------------------------------------------
(* Bounds of the model *)

\* most nodes of one sort (main containers, tooltips) that may pile up
MaxNodes == 2
\* most requests in flight at once
MaxInFlight == 2
\* largest number of distinct labels of an injected record list
MaxLabels == 27
\* the calendar's years
MinYear == 2023
MaxYear == 2025
\* most records of a list injected into a stacked chart to study its layout
MaxSegments == 3
\* most zoom events one chart receives
MaxZooms == 2

\* Gantt.DEFAULT_CONFIG
X_AXIS_HEIGHT == 30
ROW_GAP == 30
MIN_WIDTH == 400
MIN_HEIGHT == 200
LABEL_WIDTH == 200
MARGIN_RIGHT == 20
BAR_HEIGHT == 24
\* StackedHorizontalBar.DEFAULT_CONFIG
barHeight == 30
axisXHeight == 30
ShbMarginTop == 0
ShbMarginBottom == 0
ShbMarginRight == 20
ShbLabelWidth == 200
\* CalendarDensity.DEFAULT_CONFIG and the computed configuration
cellSize == 22
CalMarginTop == 15
yearHeight == cellSize * 7 + 25
\* the ceiling of a computed container height
HeightCap == 768

Kinds == {"Gantt", "StackedHorizontalBar", "CalendarDensity"}

\* box sizes the host container may report
Widths == {0, 800}
Heights == {0, 600}

-----------------------------------------------------------------------------
(* JavaScript values *)

JsUndefined == [t |-> "undefined", s |-> "", n |-> 0]
JsNull == [t |-> "null", s |-> "", n |-> 0]
JsStr(x) == [t |-> "string", s |-> x, n |-> 0]
JsNum(k) == [t |-> "number", s |-> "", n |-> k]
\* a Date object with a valid time value, and the Invalid Date
JsDate(k) == [t |-> "date", s |-> "", n |-> k]
JsInvalidDate == [t |-> "invalid-date", s |-> "", n |-> 0]

\* ToBoolean(v) is false
Falsy(v) ==
    \/ v.t \in {"undefined", "null"}
    \/ v.t = "string" /\ v.s = ""
    \/ v.t = "number" /\ v.n = 0

\* v || d
JsOr(v, d) == IF Falsy(v) THEN d ELSE v

\* date strings the API sends, by day number
DateStrings == <<"2024-01-01", "2024-01-02", "2024-01-03", "2024-01-04">>

\* new Date(v)
NewDate(v) ==
    CASE v.t = "string" ->
            IF \E i \in DOMAIN DateStrings : DateStrings[i] = v.s
            THEN JsDate(CHOOSE i \in DOMAIN DateStrings : DateStrings[i] = v.s)
            ELSE JsInvalidDate
      [] v.t = "number" -> JsDate(v.n)
      [] v.t = "null" -> JsDate(0)
      [] v.t = "date" -> v
      [] OTHER -> JsInvalidDate

-----------------------------------------------------------------------------
(* API payloads and the transformers *)

\* one item of a JSON array: an object with the fields below, or null
RawObject(l, c, col, d, v, s, e, dt) ==
    [t |-> "object", label |-> l, category |-> c, color |-> col,
     description |-> d, value |-> v, startdatetime |-> s, enddatetime |-> e,
     date |-> dt]
RawNull == [RawObject(JsUndefined, JsUndefined, JsUndefined, JsUndefined,
                      JsUndefined, JsUndefined, JsUndefined, JsUndefined)
            EXCEPT !.t = "null"]

\* a complete item for label l, category c and day k
FullItem(l, c, k) ==
    RawObject(JsStr(l), JsStr(c), JsStr("#ff0000"), JsStr("note"), JsNum(k),
              JsStr(DateStrings[k]), JsStr(DateStrings[k + 1]),
              JsStr(DateStrings[k]))
\* an item with no field at all
BareItem ==
    RawObject(JsUndefined, JsUndefined, JsUndefined, JsUndefined,
              JsUndefined, JsUndefined, JsUndefined, JsUndefined)

\* a parsed JSON body: an array of items, or something that is not an array
JsonArray(items) == [isArray |-> TRUE, items |-> items]
JsonNotArray == [isArray |-> FALSE, items |-> <<>>]

\* bodies the API answers with
Payloads ==
    { JsonNotArray,
      JsonArray(<<>>),
      JsonArray(<<FullItem("A", "x", 1), FullItem("B", "y", 2)>>),
      JsonArray(<<FullItem("A", "x", 1), BareItem>>),
      JsonArray(<<FullItem("A", "x", 1), RawNull>>) }

\* the value of a function that may throw
Returned(v) == [threw |-> FALSE, val |-> v]
Threw == [threw |-> TRUE, val |-> <<>>]

GanttRecord(item) ==
    [label |-> JsOr(item.label, JsStr("Sans titre")),
     color |-> JsOr(item.color, JsStr("#666")),
     category |-> JsOr(item.category, JsStr("Général")),
     startdatetime |-> NewDate(item.startdatetime),
     enddatetime |-> NewDate(item.enddatetime),
     description |-> JsOr(item.description, JsStr(""))]

StackedRecord(item) ==
    [label |-> JsOr(item.label, JsStr("Sans titre")),
     category |-> JsOr(item.category, JsStr("Général")),
     color |-> JsOr(item.color, JsStr("#666")),
     description |-> JsOr(item.description, JsStr("")),
     value |-> JsOr(item.value, JsNum(0))]

CalendarRecord(item) ==
    [date |-> NewDate(item.date),
     description |-> JsOr(item.description, JsStr("")),
     value |-> JsOr(item.value, JsNum(0)),
     label |-> JsOr(item.label, JsStr(""))]

MakeRecord(k, item) ==
    CASE k = "Gantt" -> GanttRecord(item)
      [] k = "StackedHorizontalBar" -> StackedRecord(item)
      [] OTHER -> CalendarRecord(item)

\* a transformer that validates the dates and rejects the whole batch
TransformRawData_DiscardInvalid(k, rawData) ==
    IF ~rawData.isArray \/ rawData.items = <<>> THEN Returned(<<>>)
    ELSE IF \E i \in DOMAIN rawData.items : rawData.items[i].t = "null"
         THEN Threw
         ELSE LET recs == [i \in DOMAIN rawData.items |->
                              MakeRecord(k, rawData.items[i])]
              IN IF \E i \in DOMAIN recs :
                        JsInvalidDate \in {recs[i][f] : f \in DOMAIN recs[i]}
                 THEN Returned(<<>>)
                 ELSE Returned(recs)
\* _transformRawData(rawData): a property read on a null item throws
TransformRawData(k, rawData) ==
    IF ~rawData.isArray \/ rawData.items = <<>> THEN Returned(<<>>)
    ELSE IF \E i \in DOMAIN rawData.items : rawData.items[i].t = "null"
         THEN Threw
         ELSE Returned([i \in DOMAIN rawData.items |->
                            MakeRecord(k, rawData.items[i])])

\* the largest number of Gantt rows whose total height is not above the cap
CapLabels == HeightCap \div ROW_GAP

\* record lists the host injects with set_datas: n records, n distinct labels
LabelRun(k, n) ==
    IF n = 0 THEN <<>>
    ELSE [i \in 1..n |-> MakeRecord(k, FullItem(ToString(i), "x", 1))]

\* sizes of the injected lists: empty, small and, for the classes that size
\* the container by the number of labels, around the height cap
DataSizes(k) ==
    IF k = "CalendarDensity" THEN {0, 2} ELSE {0, CapLabels, MaxLabels}

\* a list in which two records share label and category
DuplicatePair(k) ==
    <<MakeRecord(k, FullItem("A", "x", 1)), MakeRecord(k, FullItem("A", "x", 2))>>

DataSets(k) == {LabelRun(k, n) : n \in DataSizes(k)} \cup {DuplicatePair(k)}

-----------------------------------------------------------------------------
(* Scales and zoom transforms *)

\* JavaScript numbers that are not integers are kept as exact fractions
\* n / d with d > 0; NaN is the fraction with d = 0
RECURSIVE Gcd(_, _)
Gcd(a, b) == IF b = 0 THEN a ELSE Gcd(b, a % b)
Abs(a) == IF a < 0 THEN -a ELSE a
NaN == [n |-> 0, d |-> 0]
Frac(n, d) ==
    IF d = 0 THEN NaN
    ELSE LET g == Gcd(Abs(n), Abs(d))
             sgn == IF d < 0 THEN -1 ELSE 1
         IN [n |-> sgn * (n \div g), d |-> sgn * (d \div g)]
Whole(k) == [n |-> k, d |-> 1]
IsNaN(a) == a.d = 0
Plus(a, b) == IF IsNaN(a) \/ IsNaN(b) THEN NaN
              ELSE Frac(a.n * b.d + b.n * a.d, a.d * b.d)
Minus(a, b) == IF IsNaN(a) \/ IsNaN(b) THEN NaN
               ELSE Frac(a.n * b.d - b.n * a.d, a.d * b.d)
Times(a, b) == IF IsNaN(a) \/ IsNaN(b) THEN NaN ELSE Frac(a.n * b.n, a.d * b.d)
Over(a, b) == IF IsNaN(a) \/ IsNaN(b) THEN NaN ELSE Frac(a.n * b.d, a.d * b.n)
Less(a, b) == ~IsNaN(a) /\ ~IsNaN(b) /\ a.n * b.d < b.n * a.d

\* d3.zoomIdentity: scale factor k = 1, translation x = 0
ZoomIdentity == [k |-> Whole(1), x |-> Whole(0)]

\* the smaller and the larger of two numbers
Lower(a, b) == IF Less(b, a) THEN b ELSE a
Higher(a, b) == IF Less(a, b) THEN b ELSE a

\* a continuous scale of d3 (scaleLinear, scaleTime): a domain mapped onto a
\* range.  Times are counted in days and kept exact: the rounding of a
\* scaleTime domain to whole milliseconds is left out.
Scale(d0, d1, r0, r1) == [domain |-> <<d0, d1>>, range |-> <<r0, r1>>]
\* no chart has been drawn: there is no scale yet
NoScale == Scale(NaN, NaN, Whole(0), Whole(0))

\* scale(v): a domain of one point maps onto the middle of the range
ScaleApply(s, v) ==
    LET d0 == s.domain[1]
        d1 == s.domain[2]
        r0 == s.range[1]
        r1 == s.range[2]
    IN IF IsNaN(v) \/ IsNaN(d0) \/ IsNaN(d1) THEN NaN
       ELSE IF d0 = d1 THEN Plus(r0, Over(Minus(r1, r0), Whole(2)))
       ELSE Plus(r0, Times(Over(Minus(v, d0), Minus(d1, d0)), Minus(r1, r0)))

\* scale.invert(p)
ScaleInvert(s, p) ==
    ScaleApply(Scale(s.range[1], s.range[2], s.domain[1], s.domain[2]), p)

\* transform.invertX(p) = (p - x) / k
InvertX(T, p) == Over(Minus(p, T.x), T.k)

\* transform.rescaleX(s): a copy of s whose domain is the part of the
\* domain of s that the transform brings onto the range
RescaleX(T, s) ==
    Scale(ScaleInvert(s, InvertX(T, s.range[1])),
          ScaleInvert(s, InvertX(T, s.range[2])),
          s.range[1], s.range[2])

\* isNaN(v) ? 0 : v
ZeroIfNaN(v) == IF IsNaN(v) THEN Whole(0) ELSE v

\* date.getTime() in days
TimeValue(v) == IF v.t = "date" THEN Whole(v.n) ELSE NaN

-----------------------------------------------------------------------------
(* Construction *)

Prefixes == {"api/gantt", "api/other"}

\* what a modal shows: its visibility, the header, the label and the
\* description of its panel, and whether the click handled last went on to
\* the listeners of the document
ModalView(visibility, header, label, description, propagated) ==
    [visibility |-> visibility, header |-> header, label |-> label,
     description |-> description, propagated |-> propagated]
\* the instance holds no modal
NoModal == ModalView("none", JsUndefined, JsUndefined, JsUndefined, FALSE)

\* new Gantt(prefixeAPI, parent), new StackedHorizontalBar(prefixeAPI, parent),
\* new CalendarDensity(year, prefixeAPI, parent); the container is empty
\* followed by set_datas(list) for a list of lists, if that is not empty;
\* the calendar is given a year of years
FreshIn(lists, years) ==
    /\ kind \in Kinds
    /\ prefixeAPI = "api/gantt"
    /\ datas \in lists
    /\ isLoading = FALSE
    /\ year \in (IF kind = "CalendarDensity" THEN years ELSE {0})
    /\ inflight = <<>>
    /\ microtasks = 0
    /\ clientWidth \in Widths
    /\ clientHeight \in Heights
    /\ children = <<>>
    /\ tooltips = 0
    /\ modals = 0
    /\ tooltipRef = FALSE
    /\ modalRef = FALSE
    /\ destroyed = FALSE
    /\ lastOp = "new"
    /\ outcome = "returned"
    /\ marks = <<>>
    /\ baseScale = NoScale
    /\ transform = ZoomIdentity
    /\ zoomEvents = 0
    /\ modalView = NoModal

Fresh(lists) == FreshIn(lists, MinYear..MaxYear)

New == Fresh({<<>>})

\* the surroundings of an instance: the bodies the API answers with, and
\* what the state follows: "lifecycle" follows requests and DOM nodes, with
\* injected lists sized around the height cap; "geometry" follows the drawn
\* marks as well, with small injected lists
\* the years the navigation moves in are MinYear..MaxYear and the page is
\* shown in UTC, unless told otherwise
Surroundings(bodies, focus) ==
    [bodies |-> bodies, focus |-> focus, years |-> MinYear..MaxYear, zone |-> 0]
\* a page shown in a time zone, zone hours east of UTC, whose user moves
\* within years
Shown(bodies, focus, years, zone) ==
    [Surroundings(bodies, focus) EXCEPT !.years = years, !.zone = zone]

\* an instance in a page whose API answers with any of Payloads
Init ==
    /\ New
    /\ env = Surroundings(Payloads, "lifecycle")

\* a host call is a task: it runs when no promise reaction is pending, and
\* the host calls nothing on an instance it has destroyed
HostMayCall == microtasks = 0 /\ ~destroyed

DomVars == <<children, tooltips, modals, tooltipRef, modalRef>>
ViewVars == <<marks, baseScale, transform, zoomEvents, modalView>>
SizeVars == <<clientWidth, clientHeight>>

-----------------------------------------------------------------------------
(* Data acquisition *)

\* the URL of obtain_datas() and of obtain_datas_by_year()
Url == "/" \o prefixeAPI
UrlByYear(y) == "/" \o prefixeAPI \o "?year=" \o ToString(y)

\* the guard left out: a call never sees an earlier one pending
AlreadyLoading_Never == FALSE
\* if (this.isLoading) return;
AlreadyLoading == isLoading

\* fetch(url): one more request in flight; nav tells that next_year() or
\* previous_year() has chained a render on the returned promise
IssueRequest(url, nav) ==
    /\ Len(inflight) < MaxInFlight
    /\ isLoading' = TRUE
    /\ inflight' = Append(inflight, [stage |-> "fetching", url |-> url, nav |-> nav])

\* obtain_datas() of the three classes
ObtainDatas ==
    /\ HostMayCall
    /\ lastOp' = "obtain_datas"
    /\ IF AlreadyLoading
       THEN /\ outcome' = "dropped"
            /\ UNCHANGED <<isLoading, inflight>>
       ELSE /\ outcome' = "pending"
            /\ IssueRequest(Url, FALSE)
    /\ UNCHANGED <<kind, env, ViewVars, prefixeAPI, datas, year, microtasks,
                   SizeVars, DomVars, destroyed>>

\* CalendarDensity.obtain_datas_by_year()
ObtainDatasByYear ==
    /\ HostMayCall
    /\ kind = "CalendarDensity"
    /\ lastOp' = "obtain_datas_by_year"
    /\ IF AlreadyLoading
       THEN /\ outcome' = "dropped"
            /\ UNCHANGED <<isLoading, inflight>>
       ELSE /\ outcome' = "pending"
            /\ IssueRequest(UrlByYear(year), FALSE)
    /\ UNCHANGED <<kind, env, ViewVars, prefixeAPI, datas, year, microtasks,
                   SizeVars, DomVars, destroyed>>

RemoveAt(q, i) == SubSeq(q, 1, i - 1) \o SubSeq(q, i + 1, Len(q))

\* response.ok
ResponseOk(status) == status >= 200 /\ status <= 299
Statuses == {200, 404, 500}

\* a catch block that only logs: the list keeps what it held
CatchDatas_Kept == datas
\* catch (error) { this.datas = [] }
CatchDatas == <<>>
\* no finally block: the flag keeps its value
FinallyLoading_Kept == isLoading
\* finally { this.isLoading = false }
FinallyLoading == FALSE

\* an assignment that spares a list that holds records
AssignDatas_UnlessFilled(d) == IF datas # <<>> THEN datas ELSE d
\* this.datas = ... in obtain_datas() and obtain_datas_by_year(): the list is
\* replaced, whatever it holds
AssignDatas(d) == d

\* the async function of request i runs to its end: the record list is d,
\* the flag is cleared, the returned promise is fulfilled and its reaction,
\* if any, is queued
Settle(i, d, how) ==
    /\ datas' = AssignDatas(d)
    /\ isLoading' = FinallyLoading
    /\ inflight' = RemoveAt(inflight, i)
    /\ microtasks' = microtasks + (IF inflight[i].nav THEN 1 ELSE 0)
    /\ lastOp' = how
    /\ outcome' = "fulfilled"
    /\ UNCHANGED <<kind, env, ViewVars, prefixeAPI, year, SizeVars, DomVars, destroyed>>

\* the try block throws: the catch block and the finally block run
SettleFailure(i, how) == Settle(i, CatchDatas, how)

\* await fetch(url) completes: the request was rejected, or a response came
FetchSettles ==
    /\ microtasks = 0
    /\ \E i \in DOMAIN inflight :
        /\ inflight[i].stage = "fetching"
        /\ \/ SettleFailure(i, "settle_transport_error")
           \/ \E status \in Statuses :
                IF ResponseOk(status)
                THEN /\ inflight' = [inflight EXCEPT ![i].stage = "parsing"]
                     /\ lastOp' = "response"
                     /\ outcome' = "pending"
                     /\ UNCHANGED <<kind, env, ViewVars, prefixeAPI, datas, isLoading, year,
                                    microtasks, SizeVars, DomVars, destroyed>>
                ELSE SettleFailure(i, IF status = 500 THEN "settle_http_500"
                                                     ELSE "settle_http_error")

\* await response.json() completes: the body does not parse, or it parses to
\* rawData and this.datas = this._transformRawData(rawData) runs
BodySettles ==
    /\ microtasks = 0
    /\ \E i \in DOMAIN inflight :
        /\ inflight[i].stage = "parsing"
        /\ \/ SettleFailure(i, "settle_parse_error")
           \/ \E rawData \in env.bodies :
                LET r == TransformRawData(kind, rawData) IN
                IF r.threw
                THEN SettleFailure(i, "settle_transform_threw")
                ELSE Settle(i, r.val, IF rawData.isArray THEN "settle_ok"
                                                         ELSE "settle_not_array")

\* the lists the host injects, by class
GanttLists == DataSets("Gantt")
StackedLists == DataSets("StackedHorizontalBar")
CalendarLists == DataSets("CalendarDensity")
HostLists ==
    CASE kind = "Gantt" -> GanttLists
      [] kind = "StackedHorizontalBar" -> StackedLists
      [] OTHER -> CalendarLists

\* a set_datas that appends the given records to the list
SetDatasResult_Appended(d) == datas \o d
\* this.datas = datas; CalendarDensity tests Array.isArray(datas) first
SetDatasResult(d) == d

\* set_datas(datas) with a typed record array
SetDatas ==
    /\ HostMayCall
    /\ \E d \in HostLists : datas' = SetDatasResult(d)
    /\ lastOp' = "set_datas"
    /\ outcome' = "returned"
    /\ UNCHANGED <<kind, env, ViewVars, prefixeAPI, isLoading, year, inflight, microtasks,
                   SizeVars, DomVars, destroyed>>

\* Gantt.set_prefixe(prefixeAPI)
SetPrefixe ==
    /\ HostMayCall
    /\ kind = "Gantt"
    /\ \E p \in Prefixes : prefixeAPI' = p
    /\ lastOp' = "set_prefixe"
    /\ outcome' = "returned"
    /\ UNCHANGED <<kind, env, ViewVars, datas, isLoading, year, inflight, microtasks,
                   SizeVars, DomVars, destroyed>>

\* the host page lays the container out anew
Resize ==
    /\ HostMayCall
    /\ clientWidth' \in Widths
    /\ clientHeight' \in Heights
    /\ <<clientWidth', clientHeight'>> # <<clientWidth, clientHeight>>
    /\ lastOp' = "resize"
    /\ outcome' = "returned"
    /\ UNCHANGED <<kind, env, ViewVars, prefixeAPI, datas, isLoading, year, inflight,
                   microtasks, DomVars, destroyed>>

-----------------------------------------------------------------------------
(* Rendering *)

\* d3.group(datas, d => d.label).size: the number of distinct labels
DistinctLabels(ds) == Cardinality({ds[i].label : i \in DOMAIN ds})
\* d3.union(datas.map(d => d.category)): the number of stacked series
DistinctCategories(ds) == Cardinality({ds[i].category : i \in DOMAIN ds})

\* a main container appended to the host container
MainContainer(cls, w, h, y) == [cls |-> cls, width |-> w, height |-> h, yr |-> y]

\* the DOM a render leaves, and how the call completed
RenderResult(how, ch, tt, md, tr, mr) ==
    [outcome |-> how, children |-> ch, tooltips |-> tt, modals |-> md,
     tooltipRef |-> tr, modalRef |-> mr]
DomUntouched(how) ==
    RenderResult(how, children, tooltips, modals, tooltipRef, modalRef)

\* Gantt._calculateDimensions(): containerHeight
GanttContainerHeight(ds) ==
    LET totalSvgHeight == DistinctLabels(ds) * ROW_GAP IN
    IF clientHeight = 0
    THEN (IF totalSvgHeight > HeightCap THEN HeightCap
          ELSE totalSvgHeight + X_AXIS_HEIGHT)
    ELSE clientHeight

\* a check of the height alone
CheckMinimumDimensions_HeightOnly(containerWidth, containerHeight) ==
    ~(containerHeight < MIN_HEIGHT)
\* Gantt._checkMinimumDimensions(containerWidth, containerHeight)
CheckMinimumDimensions(containerWidth, containerHeight) ==
    ~(containerWidth < MIN_WIDTH \/ containerHeight < MIN_HEIGHT)

\* a render that creates its containers before it checks the dimensions
GanttRender_ContainersFirst(ds) ==
    LET containerHeight == GanttContainerHeight(ds)
        ch == Append(children,
                     MainContainer("gantt-main-container",
                                   ToString(clientWidth) \o "px", containerHeight, 0))
    IN IF ~CheckMinimumDimensions(clientWidth, containerHeight)
       THEN RenderResult("aborted", ch, tooltips, modals, tooltipRef, modalRef)
       ELSE RenderResult("rendered", ch, tooltips + 1, modals, tooltipRef,
                         modalRef)
\* Gantt.render(): nothing is removed; _createContainers appends the main
\* container and _setupInteractions appends a tooltip to document.body
GanttRender(ds) ==
    LET containerHeight == GanttContainerHeight(ds) IN
    IF ~CheckMinimumDimensions(clientWidth, containerHeight)
    THEN DomUntouched("aborted")
    ELSE RenderResult("rendered",
            Append(children,
                   MainContainer("gantt-main-container",
                                 ToString(clientWidth) \o "px", containerHeight, 0)),
            tooltips + 1, modals, tooltipRef, modalRef)

\* d3.index(datas, d => d.label, d => d.category) throws on a duplicate key
DuplicateKey(ds) ==
    \E i, j \in DOMAIN ds :
        i # j /\ ds[i].label = ds[j].label /\ ds[i].category = ds[j].category

\* StackedHorizontalBar._calculateDimensions(stackedSeries): containerHeight;
\* stackedSeries[0].length is the number of labels
StackedContainerHeight(ds) ==
    LET totalSvgHeight == DistinctLabels(ds) * barHeight + ShbMarginTop
                          + ShbMarginBottom + axisXHeight IN
    IF clientHeight = 0
    THEN (IF totalSvgHeight > HeightCap THEN HeightCap ELSE totalSvgHeight)
    ELSE clientHeight

\* StackedHorizontalBar.render(): d3.stack() yields one series per category,
\* so stackedSeries[0] is undefined when there is no record
StackedRender(ds) ==
    IF DuplicateKey(ds) \/ DistinctCategories(ds) = 0
    THEN DomUntouched("threw")
    ELSE RenderResult("rendered",
            Append(children,
                   MainContainer("SHB-main-container", ToString(clientWidth),
                                 StackedContainerHeight(ds), 0)),
            tooltips + 1, modals, tooltipRef, modalRef)

\* CalendarDensity._cleanup(): body nodes left after removing the held ones
AfterCleanup(count, held) == IF held THEN count - 1 ELSE count

\* CalendarDensity.render() for the year y
CalendarRender(y) ==
    LET containerWidth == IF clientWidth = 0 THEN "100%"
                          ELSE ToString(clientWidth) \o "px"
        containerHeight == IF clientHeight = 0 THEN yearHeight + CalMarginTop
                           ELSE clientHeight
    IN RenderResult("rendered",
            <<MainContainer("calendar-density-container", containerWidth,
                            containerHeight, y)>>,
            AfterCleanup(tooltips, tooltipRef) + 1,
            AfterCleanup(modals, modalRef) + 1, TRUE, TRUE)

\* render() of the instance's class, with the year y and the list ds
RenderOf(y, ds) ==
    CASE kind = "Gantt" -> GanttRender(ds)
      [] kind = "StackedHorizontalBar" -> StackedRender(ds)
      [] OTHER -> CalendarRender(y)

\* the DOM becomes what the render r left
ApplyRender(r) ==
    /\ Len(r.children) <= MaxNodes
    /\ r.tooltips <= MaxNodes
    /\ children' = r.children
    /\ tooltips' = r.tooltips
    /\ modals' = r.modals
    /\ tooltipRef' = r.tooltipRef
    /\ modalRef' = r.modalRef

-----------------------------------------------------------------------------
(* The marks of a chart *)

\* the indices of a set, in ascending order
RECURSIVE Ascending(_)
Ascending(S) ==
    IF S = {} THEN <<>>
    ELSE LET m == CHOOSE x \in S : \A y \in S : x <= y
         IN <<m>> \o Ascending(S \ {m})

\* the places of ds where a label, or a category, appears for the first time
FirstOfLabel(ds) ==
    Ascending({i \in DOMAIN ds : \A j \in 1..(i - 1) : ds[j].label # ds[i].label})
FirstOfCategory(ds) ==
    Ascending({i \in DOMAIN ds :
                  \A j \in 1..(i - 1) : ds[j].category # ds[i].category})

\* the keys of d3.index(datas, d => d.label, ...), in insertion order
LabelsInOrder(ds) ==
    LET at == FirstOfLabel(ds) IN [j \in DOMAIN at |-> ds[at[j]].label]
\* d3.union(datas.map(d => d.category)), in insertion order
CategoriesInOrder(ds) ==
    LET at == FirstOfCategory(ds) IN [i \in DOMAIN at |-> ds[at[i]].category]

\* .value(([, group], key) => { entry = group.get(key);
\*                              return entry ? entry.value : 0 })
StackValue(ds, label, key) ==
    IF \E i \in DOMAIN ds : ds[i].label = label /\ ds[i].category = key
    THEN (LET i == CHOOSE i \in DOMAIN ds :
                       ds[i].label = label /\ ds[i].category = key
          IN ds[i].value.n)
    ELSE 0

\* series laid side by side from the baseline instead of stacked
StackTop_Unstacked(ds, keys, label, i) ==
    IF i = 0 THEN 0 ELSE StackValue(ds, label, keys[i])
\* d3.stack() with the default offset: the upper end of the point of the
\* series i for a label; the series 0 stands for the baseline
RECURSIVE StackTop(_, _, _, _)
StackTop(ds, keys, label, i) ==
    IF i = 0 THEN 0
    ELSE StackTop(ds, keys, label, i - 1) + StackValue(ds, label, keys[i])

\* d3.rollup(datas, v => d3.sum(v, d => d.value), d => d.label).get(label)
RECURSIVE SumOfLabel(_, _, _)
SumOfLabel(ds, label, n) ==
    IF n = 0 THEN 0
    ELSE SumOfLabel(ds, label, n - 1)
         + (IF ds[n].label = label THEN ds[n].value.n ELSE 0)
TotalsByLabel(ds, label) == SumOfLabel(ds, label, Len(ds))

\* d3.max(stackedSeries, d => d3.max(d, d => d[1]))
StackMax(ds) ==
    LET keys == CategoriesInOrder(ds)
        tops == {StackTop(ds, keys, ds[n].label, i) :
                    n \in DOMAIN ds, i \in DOMAIN keys}
    IN CHOOSE m \in tops : \A t \in tops : t <= m

\* StackedHorizontalBar._createXScale(stackedSeries, containerWidth)
StackedXScale(ds, containerWidth) ==
    Scale(Whole(0), Whole(StackMax(ds)), Whole(0),
          Whole(containerWidth - ShbLabelWidth - ShbMarginRight))

\* label strings in the order of their UTF-16 code units
KnownLabels == <<"A", "B", "Sans titre">>
\* d3.ascending(a, b) < 0 for two label strings
LabelBefore(a, b) ==
    \E i, j \in DOMAIN KnownLabels :
        KnownLabels[i] = a.s /\ KnownLabels[j] = b.s /\ i < j

\* the labels in the order in which they appear in the list
GroupSort_InsertionOrder(ds) == LabelsInOrder(ds)
\* d3.groupSort(datas, D => -d3.sum(D, d => d.value), d => d.label): the
\* labels by ascending value of the accessor, and by ascending label where
\* the values are equal
GroupSort(ds) ==
    LET labels == LabelsInOrder(ds)
        Sooner(a, b) ==
            \/ -TotalsByLabel(ds, a) < -TotalsByLabel(ds, b)
            \/ /\ TotalsByLabel(ds, a) = TotalsByLabel(ds, b)
               /\ LabelBefore(a, b)
        Place(l) == 1 + Cardinality({j \in DOMAIN labels : Sooner(labels[j], l)})
    IN [p \in DOMAIN labels |->
            labels[CHOOSE j \in DOMAIN labels : Place(labels[j]) = p]]

\* .padding(0.08): the inner and the outer padding of the bands
BandPadding == Frac(2, 25)

\* StackedHorizontalBar._createYScale(totalSvgHeight): a band scale of the
\* sorted labels over [0, totalSvgHeight - axisXHeight], bands aligned in the
\* middle of the range
StackedYScale(ds) ==
    LET domain == GroupSort(ds)
        n == Len(domain)
        stop == Whole(DistinctLabels(ds) * barHeight + ShbMarginTop
                      + ShbMarginBottom + axisXHeight - axisXHeight)
        slots == Plus(Minus(Whole(n), BandPadding),
                      Times(Whole(2), BandPadding))
        step == Over(stop, Higher(Whole(1), slots))
    IN [domain |-> domain,
        step |-> step,
        start |-> Over(Minus(stop, Times(step, Minus(Whole(n), BandPadding))),
                       Whole(2)),
        bandwidth |-> Times(step, Minus(Whole(1), BandPadding))]

\* yScale(label)
BandApply(yScale, label) ==
    LET p == CHOOSE p \in DOMAIN yScale.domain : yScale.domain[p] = label
    IN Plus(yScale.start, Times(yScale.step, Whole(p - 1)))

\* StackedHorizontalBar._createRectangles(): one group per series, one rect
\* per label in each; total is what the tooltip divides by
StackedRects(ds, xScale) ==
    LET keys == CategoriesInOrder(ds)
        labels == LabelsInOrder(ds)
        nl == Len(labels)
        yScale == StackedYScale(ds)
        Rect(i, j) ==
            LET from == StackTop(ds, keys, labels[j], i - 1)
                to == StackTop(ds, keys, labels[j], i)
            IN [key |-> keys[i], label |-> labels[j], from |-> from, to |-> to,
                x |-> Plus(ScaleApply(xScale, Whole(from)), Whole(ShbLabelWidth)),
                y |-> BandApply(yScale, labels[j]),
                height |-> yScale.bandwidth,
                width |-> Minus(ScaleApply(xScale, Whole(to)),
                                ScaleApply(xScale, Whole(from))),
                total |-> TotalsByLabel(ds, labels[j])]
    IN [n \in 1..(Len(keys) * nl) |->
            Rect(((n - 1) \div nl) + 1, ((n - 1) % nl) + 1)]

\* d3.min(datas, d => d3.isoParse(d.startdatetime)) and d3.max(datas, d =>
\* d3.isoParse(d.enddatetime)): invalid dates are skipped, and there is no
\* extremum when no date is valid
MinDate(ds) ==
    LET valid == {ds[i].startdatetime.n :
                     i \in {j \in DOMAIN ds : ds[j].startdatetime.t = "date"}}
    IN IF valid = {} THEN NaN
       ELSE Whole(CHOOSE m \in valid : \A v \in valid : m <= v)
MaxDate(ds) ==
    LET valid == {ds[i].enddatetime.n :
                     i \in {j \in DOMAIN ds : ds[j].enddatetime.t = "date"}}
    IN IF valid = {} THEN NaN
       ELSE Whole(CHOOSE m \in valid : \A v \in valid : v <= m)

\* Gantt._createTimeScale(containerWidth)
CreateTimeScale(ds, containerWidth) ==
    Scale(MinDate(ds), MaxDate(ds), Whole(0),
          Whole(containerWidth - LABEL_WIDTH - MARGIN_RIGHT))

\* the x and the width of a bar under a scale, NaN replaced by 0
BarX(scale, d) == ZeroIfNaN(ScaleApply(scale, TimeValue(d.startdatetime)))
BarWidth(scale, d) ==
    ZeroIfNaN(Minus(ScaleApply(scale, TimeValue(d.enddatetime)),
                    ScaleApply(scale, TimeValue(d.startdatetime))))

\* d3.scaleBand().domain(labels).rangeRound([0, totalSvgHeight])(d.label):
\* totalSvgHeight is ROW_GAP times the number of labels, so the step is
\* ROW_GAP
BarY(ds, d) ==
    LET labels == LabelsInOrder(ds)
        j == CHOOSE j \in DOMAIN labels : labels[j] = d.label
    IN (j - 1) * ROW_GAP

\* Gantt._createGanttBars(mainSvg, timeScale, totalSvgHeight)
GanttBars(ds, scale) ==
    IF ds = <<>> THEN <<>>
    ELSE [i \in DOMAIN ds |->
            [datum |-> ds[i], x |-> BarX(scale, ds[i]),
             width |-> BarWidth(scale, ds[i]), y |-> BarY(ds, ds[i]),
             height |-> BAR_HEIGHT]]

\* new Date(year, month, day) takes a year from 0 to 99 as 1900 + year
DateYear(y) == IF y \in 0..99 THEN 1900 + y ELSE y
IsLeapYear(y) == y % 4 = 0 /\ (y % 100 # 0 \/ y % 400 = 0)
DaysOfYear(y) == IF IsLeapYear(y) THEN 366 ELSE 365
\* the days from 1 January of the year 1 to 1 January of the year y
DaysBeforeYear(y) ==
    365 * (y - 1) + ((y - 1) \div 4) - ((y - 1) \div 100) + ((y - 1) \div 400)
\* the day number of 1 January of a year; DateStrings[1] is day 1
FirstDayOfYear(y) == DaysBeforeYear(y) - DaysBeforeYear(2024) + 1

\* new Date(year, month, day): midnight of a day in the time zone of the
\* page.  A Date of the calendar is kept as the UTC day its instant falls
\* on, on which all its getUTC... getters depend: east of UTC, local
\* midnight falls on the UTC day before
LocalMidnight(day) == JsDate(IF env.zone > 0 THEN day - 1 ELSE day)

\* item.date.getUTCFullYear() === currentDate.getUTCFullYear() && ... for
\* the month and the day: an Invalid Date compares equal to nothing
SameUTCDay(a, b) == a.t = "date" /\ b.t = "date" /\ a.n = b.n

\* the entry of a day without record
Placeholder(currentDate) ==
    [date |-> currentDate, description |-> JsStr(""), value |-> JsNull,
     label |-> JsStr("pas d'infos")]

\* generateYearCalendarData(year, existingData): the loop runs over the
\* local days from 1 January to 31 December; find() gives the first match
GenerateYearCalendarData(y, existingData) ==
    LET first == FirstDayOfYear(DateYear(y))
        Entry(day) ==
            LET currentDate == LocalMidnight(day)
                hits == {i \in DOMAIN existingData :
                            SameUTCDay(existingData[i].date, currentDate)}
            IN IF hits # {}
               THEN existingData[CHOOSE i \in hits : \A j \in hits : i <= j]
               ELSE Placeholder(currentDate)
    IN [i \in 1..DaysOfYear(DateYear(y)) |-> Entry(first + i - 1)]

\* CalendarDensity._renderCells(): one rect per entry, bound to it
CalendarCells(allDays) == [i \in DOMAIN allDays |-> [datum |-> allDays[i]]]

\* the visibility the stylesheet gives to an element of class modal
ModalStyle == "hidden"

\* d3.timeFormat("%d %B %Y")(date): the text of a date
ShortDate(date) == [t |-> "text", s |-> "%d %B %Y", n |-> date.n]

\* CalendarDensity._setupModal(): the modal appended to the body, its panel
\* empty
NewModal == ModalView(ModalStyle, JsStr(""), JsStr(""), JsStr(""), FALSE)

\* a render that keeps the modal it finds
ModalAfterRender_Reused == IF modalView = NoModal THEN NewModal ELSE modalView
\* CalendarDensity.render(): _cleanup() removes the modal the instance holds
\* and _setupModal() appends a new one
ModalAfterRender == NewModal

\* the marks a call that completed as how leaves on the chart drawn last
Draw(y, ds, how) ==
    IF env.focus = "geometry" /\ how = "rendered"
    THEN CASE kind = "Gantt" ->
                LET scale == CreateTimeScale(ds, clientWidth) IN
                /\ baseScale' = scale
                /\ marks' = GanttBars(ds, scale)
                /\ transform' = ZoomIdentity
                /\ zoomEvents' = 0
                /\ modalView' = NoModal
           [] kind = "StackedHorizontalBar" ->
                LET xScale == StackedXScale(ds, clientWidth) IN
                /\ baseScale' = xScale
                /\ marks' = StackedRects(ds, xScale)
                /\ transform' = ZoomIdentity
                /\ zoomEvents' = 0
                /\ modalView' = NoModal
           [] OTHER ->
                /\ baseScale' = NoScale
                /\ marks' = CalendarCells(GenerateYearCalendarData(y, ds))
                /\ transform' = ZoomIdentity
                /\ zoomEvents' = 0
                /\ modalView' = ModalAfterRender
    ELSE UNCHANGED ViewVars

\* the host calls render()
Render ==
    /\ HostMayCall
    /\ LET r == RenderOf(year, datas) IN
        /\ ApplyRender(r)
        /\ Draw(year, datas, r.outcome)
        /\ outcome' = r.outcome
    /\ lastOp' = "render"
    /\ UNCHANGED <<kind, env, prefixeAPI, datas, isLoading, year, inflight,
                   microtasks, SizeVars, destroyed>>

\* the reaction .then(() => { this.render(); }) of a navigation runs
RunThen ==
    /\ microtasks > 0
    /\ LET r == RenderOf(year, datas) IN
        /\ ApplyRender(r)
        /\ Draw(year, datas, r.outcome)
        /\ outcome' = r.outcome
    /\ microtasks' = microtasks - 1
    /\ lastOp' = "then_render"
    /\ UNCHANGED <<kind, env, prefixeAPI, datas, isLoading, year, inflight,
                   SizeVars, destroyed>>

\* next_year() (step = 1) and previous_year() (step = -1): the year moves,
\* obtain_datas_by_year() is called with a render chained on its promise,
\* and render() runs at once
Navigate(step, name) ==
    /\ HostMayCall
    /\ kind = "CalendarDensity"
    /\ year + step \in env.years
    /\ year' = year + step
    /\ IF AlreadyLoading
       THEN /\ microtasks' = microtasks + 1
            /\ UNCHANGED <<isLoading, inflight>>
       ELSE /\ IssueRequest(UrlByYear(year + step), TRUE)
            /\ UNCHANGED microtasks
    /\ LET r == RenderOf(year + step, datas) IN
        /\ ApplyRender(r)
        /\ Draw(year + step, datas, r.outcome)
        /\ outcome' = r.outcome
    /\ lastOp' = name
    /\ UNCHANGED <<kind, env, prefixeAPI, datas, SizeVars, destroyed>>

NextYear == Navigate(1, "next_year")
PreviousYear == Navigate(-1, "previous_year")

\* destroy(): Gantt empties the container; CalendarDensity removes the nodes
\* it holds and empties the container; StackedHorizontalBar.js defines no
\* destroy, so the call throws a TypeError
DestroyResult ==
    CASE kind = "Gantt" ->
            RenderResult("returned", <<>>, tooltips, modals, tooltipRef, modalRef)
      [] kind = "StackedHorizontalBar" -> DomUntouched("threw")
      [] OTHER ->
            RenderResult("returned", <<>>, AfterCleanup(tooltips, tooltipRef),
                         AfterCleanup(modals, modalRef), FALSE, FALSE)

\* the container is emptied: the chart drawn last is gone with its marks
Erase(how) ==
    IF env.focus = "geometry" /\ how = "returned"
    THEN /\ marks' = <<>>
         /\ baseScale' = NoScale
         /\ transform' = ZoomIdentity
         /\ zoomEvents' = 0
         /\ modalView' = NoModal
    ELSE UNCHANGED ViewVars

Destroy ==
    /\ HostMayCall
    /\ LET r == DestroyResult IN
        /\ ApplyRender(r)
        /\ Erase(r.outcome)
        /\ outcome' = r.outcome
    /\ destroyed' = TRUE
    /\ lastOp' = "destroy"
    /\ UNCHANGED <<kind, env, prefixeAPI, datas, isLoading, year, inflight,
                   microtasks, SizeVars>>

-----------------------------------------------------------------------------
(* Zoom and pan of the Gantt chart *)

\* d3.zoom() with no scaleExtent call: any scale factor
ScaleExtent_Default == <<Whole(0), Whole(1000000)>>
\* .scaleExtent([0.5, 20])
ScaleExtent == <<Frac(1, 2), Whole(20)>>

\* d3-zoom keeps a requested scale factor within the scale extent
ConstrainScale(k) == Higher(ScaleExtent[1], Lower(ScaleExtent[2], k))

\* gestures of the user on the chart: the wheel, asking for a scale factor
\* with the pointer at p, and a drag by dx
Wheel(k, p) == [type |-> "wheel", k |-> k, p |-> p, dx |-> 0]
Drag(dx) == [type |-> "drag", k |-> Whole(1), p |-> 0, dx |-> dx]
RequestedScales == {Frac(3, 10), Whole(2), Whole(50)}
Gestures ==
    {Wheel(k, p) : k \in RequestedScales, p \in {0, 290}} \cup {Drag(58)}
GestureName(g) ==
    IF g.type = "wheel"
    THEN "wheel " \o ToString(g.k.n) \o "/" \o ToString(g.k.d)
    ELSE "drag"

\* the transform d3-zoom hands to the listener: the wheel scales about the
\* pointer, which keeps its place; a drag translates
AfterGesture(T, g) ==
    IF g.type = "wheel"
    THEN LET k == ConstrainScale(g.k) IN
         [k |-> k, x |-> Minus(Whole(g.p), Times(InvertX(T, Whole(g.p)), k))]
    ELSE [k |-> T.k, x |-> Plus(T.x, Whole(g.dx))]

\* a listener that rescales the scale of the previous event
ZoomedScale_Chained(T) == RescaleX(T, RescaleX(transform, baseScale))
\* handleZoom: event.transform.rescaleX(timeScale)
ZoomedScale(T) == RescaleX(T, baseScale)

\* updateChart(scale): x and width of every bar are set anew
UpdateChart(scale) ==
    IF marks = <<>> THEN <<>>
    ELSE [i \in DOMAIN marks |->
            [marks[i] EXCEPT !.x = BarX(scale, marks[i].datum),
                             !.width = BarWidth(scale, marks[i].datum)]]

\* a zoom event of d3-zoom on the chart drawn last; there is no event when
\* the gesture leaves the transform as it is
Zoom ==
    /\ microtasks = 0
    /\ kind = "Gantt"
    /\ baseScale # NoScale
    /\ zoomEvents < MaxZooms
    /\ zoomEvents' = zoomEvents + 1
    /\ \E g \in Gestures :
        LET T == AfterGesture(transform, g) IN
        /\ T # transform
        /\ transform' = T
        /\ marks' = UpdateChart(ZoomedScale(T))
        /\ outcome' = GestureName(g)
    /\ lastOp' = "zoom"
    /\ UNCHANGED <<kind, env, baseScale, modalView, prefixeAPI, datas,
                   isLoading, year, inflight, microtasks, SizeVars, DomVars,
                   destroyed>>

-----------------------------------------------------------------------------
(* The modal and the year of the calendar *)

\* a click handler that fills the panel and leaves the modal as it is
CellClicked_StaysHidden(dataPoint) ==
    ModalView(modalView.visibility, ShortDate(dataPoint.date),
              JsOr(dataPoint.label, JsStr("Aucun label disponible")),
              JsOr(dataPoint.description, JsStr("Aucune description disponible")),
              FALSE)
\* cells.on("click", (event, dataPoint) => ...): the event is stopped, the
\* panel is emptied and filled from the entry, the modal is made visible
CellClicked(dataPoint) ==
    ModalView("visible", ShortDate(dataPoint.date),
              JsOr(dataPoint.label, JsStr("Aucun label disponible")),
              JsOr(dataPoint.description, JsStr("Aucune description disponible")),
              FALSE)

\* this.modal.on("click", ...): the event is stopped, the modal is hidden
ModalClicked == [modalView EXCEPT !.visibility = "hidden", !.propagated = FALSE]

\* the cells the user clicks: the first, the last and those with a record
ClickedCells ==
    {i \in DOMAIN marks : i \in {1, Len(marks)} \/ marks[i].datum.value # JsNull}
CellName(i) == "cell " \o ToString(i)

\* the user clicks a cell of the calendar drawn last
ClickCell ==
    /\ microtasks = 0
    /\ kind = "CalendarDensity"
    /\ modalView # NoModal
    /\ \E i \in ClickedCells :
        /\ modalView' = CellClicked(marks[i].datum)
        /\ outcome' = CellName(i)
    /\ lastOp' = "click_cell"
    /\ UNCHANGED <<kind, env, marks, baseScale, transform, zoomEvents,
                   prefixeAPI, datas, isLoading, year, inflight, microtasks,
                   SizeVars, DomVars, destroyed>>

\* the user clicks the modal, which is visible
ClickModal ==
    /\ microtasks = 0
    /\ kind = "CalendarDensity"
    /\ modalView.visibility = "visible"
    /\ modalView' = ModalClicked
    /\ lastOp' = "click_modal"
    /\ outcome' = "returned"
    /\ UNCHANGED <<kind, env, marks, baseScale, transform, zoomEvents,
                   prefixeAPI, datas, isLoading, year, inflight, microtasks,
                   SizeVars, DomVars, destroyed>>

\* values the host passes to set_year
YearArguments ==
    {JsUndefined, JsStr("2024"), JsNum(0), JsNum(-1)}
    \cup {JsNum(y) : y \in {z \in env.years : z > 0}}

\* if (typeof year === 'number' && year > 0) { this.year = year; }
SetYearResult(v) == IF v.t = "number" /\ v.n > 0 THEN v.n ELSE year

\* CalendarDensity.set_year(year)
SetYear ==
    /\ HostMayCall
    /\ kind = "CalendarDensity"
    /\ \E v \in YearArguments :
        /\ year' = SetYearResult(v)
        /\ outcome' = ToString(v)
    /\ lastOp' = "set_year"
    /\ UNCHANGED <<kind, env, ViewVars, prefixeAPI, datas, isLoading, inflight,
                   microtasks, SizeVars, DomVars, destroyed>>

-----------------------------------------------------------------------------
(* Specification *)

Next ==
    \/ ObtainDatas
    \/ ObtainDatasByYear
    \/ FetchSettles
    \/ BodySettles
    \/ SetDatas
    \/ SetPrefixe
    \/ Resize
    \/ Render
    \/ RunThen
    \/ NextYear
    \/ PreviousYear
    \/ Destroy

Spec == Init /\ [][Next]_vars

-----------------------------------------------------------------------------
(* The data path on its own: one instance, one API body *)

\* values an API item may carry in a field: absent, null, empty, present,
\* and of the wrong type
Labels == {JsUndefined, JsStr(""), JsStr("A"), JsNum(5)}
Categories == {JsUndefined, JsNull, JsStr("x")}
\* color and description
Trimmings == {<<JsUndefined, JsStr("")>>, <<JsStr(""), JsNull>>,
              <<JsStr("#ff0000"), JsStr("note")>>}
Values == {JsUndefined, JsNum(0), JsNum(7)}
\* startdatetime (and date) and enddatetime
Intervals == {<<JsStr(DateStrings[1]), JsStr(DateStrings[3])>>,
              <<JsStr("demain"), JsStr(DateStrings[2])>>,
              <<JsUndefined, JsUndefined>>,
              <<JsNull, JsStr("")>>}

FieldItems ==
    {RawObject(l, c, t[1], t[2], v, se[1], se[2], se[1]) :
        l \in Labels, c \in Categories, t \in Trimmings, v \in Values,
        se \in Intervals}

\* bodies of one or two items: any object, alone or after a complete item,
\* and null in any place
FetchBodies ==
    {JsonNotArray, JsonArray(<<>>), JsonArray(<<RawNull>>),
     JsonArray(<<FullItem("B", "y", 2), RawNull>>),
     JsonArray(<<RawNull, FullItem("B", "y", 2)>>)}
    \cup {JsonArray(<<it>>) : it \in FieldItems}
    \cup {JsonArray(<<FullItem("B", "y", 2), it>>) : it \in FieldItems}

\* an instance in a page whose API answers with one body
InitFetch ==
    /\ New
    /\ env \in {Surroundings({b}, "lifecycle") : b \in FetchBodies}

NextFetch ==
    \/ ObtainDatas
    \/ FetchSettles
    \/ BodySettles

SpecFetch == InitFetch /\ [][NextFetch]_vars

-----------------------------------------------------------------------------
(* The geometry on its own: a list is injected, charts are drawn and zoomed *)

\* typed records of a Gantt and of a stacked chart
GanttDatum(label, s, e) ==
    GanttRecord(RawObject(JsStr(label), JsStr("x"), JsStr("#ff0000"),
                          JsStr("note"), JsUndefined, s, e, JsUndefined))
StackedDatum(label, category, v) ==
    StackedRecord(RawObject(JsStr(label), JsStr(category), JsStr("#ff0000"),
                            JsStr("note"), JsNum(v), JsUndefined, JsUndefined,
                            JsUndefined))

\* intervals of a task: in order, reversed, empty, with an invalid start and
\* with an invalid end
TaskIntervals ==
    {<<JsStr(DateStrings[a]), JsStr(DateStrings[b])>> :
        <<a, b>> \in {<<1, 2>>, <<1, 3>>, <<2, 4>>, <<3, 1>>, <<2, 2>>}}
    \cup {<<JsStr("demain"), JsStr(DateStrings[2])>>,
          <<JsStr("demain"), JsStr(DateStrings[4])>>,
          <<JsStr(DateStrings[2]), JsUndefined>>}
GanttData ==
    {GanttDatum(l, se[1], se[2]) : l \in {"A", "B"}, se \in TaskIntervals}
\* no task, one task, and any task after a task of two days
GanttGeometryLists ==
    {<<>>} \cup {<<d>> : d \in {e \in GanttData : e.label = JsStr("A")}}
    \cup {<<GanttDatum("A", JsStr(DateStrings[1]), JsStr(DateStrings[3])), d>> :
            d \in GanttData}

StackedData ==
    {StackedDatum(l, c, v) : l \in {"A", "B"}, c \in {"x", "y"}, v \in {0, 5, 10}}
\* the example of the documentation
StackedExample ==
    <<StackedDatum("A", "x", 10), StackedDatum("A", "y", 20),
      StackedDatum("B", "x", 5), StackedDatum("B", "y", 5)>>
\* lists of up to MaxSegments records with distinct (label, category) pairs
StackedGeometryLists ==
    {ds \in UNION {[1..n -> StackedData] : n \in 0..MaxSegments} :
        ~DuplicateKey(ds)} \cup {StackedExample}

GeometryLists ==
    CASE kind = "Gantt" -> GanttGeometryLists
      [] kind = "StackedHorizontalBar" -> StackedGeometryLists
      [] OTHER -> {<<>>}

InitGeometry ==
    /\ Fresh(GeometryLists)
    /\ kind # "CalendarDensity"
    /\ env = Surroundings({}, "geometry")

NextGeometry ==
    \/ Render
    \/ Zoom

SpecGeometry == InitGeometry /\ [][NextGeometry]_vars

-----------------------------------------------------------------------------
(* The calendar on its own: drawn, clicked and moved from year to year *)

\* a typed record of the calendar
CalendarDatum(date, label, description) ==
    [date |-> date, description |-> JsStr(description), value |-> JsNum(1),
     label |-> JsStr(label)]

\* no record; a record on the first, on the last day of 2024 and on the day
\* before the first; a record without a valid date; two records of one day;
\* a record without label
CalendarGeometryLists ==
    {<<>>,
     <<CalendarDatum(JsDate(1), "A", "note")>>,
     <<CalendarDatum(JsDate(366), "A", "note")>>,
     <<CalendarDatum(JsDate(0), "A", "note")>>,
     <<CalendarDatum(JsInvalidDate, "A", "note")>>,
     <<CalendarDatum(JsDate(2), "A", ""), CalendarDatum(JsDate(2), "B", "note")>>,
     <<CalendarDatum(JsDate(3), "", "note")>>}

\* hours east of UTC: New York, UTC, Paris
Zones == {-5, 0, 1}
\* the API answers with one record for 2 January 2024
CalendarBodies == {JsonArray(<<FullItem("B", "y", 2)>>)}

InitCalendar ==
    /\ env \in {Shown(CalendarBodies, "geometry", MinYear..MaxYear, zone) :
                    zone \in Zones}
    /\ FreshIn(CalendarGeometryLists, env.years)
    /\ kind = "CalendarDensity"
    /\ clientWidth = 800
    /\ clientHeight = 600

NextCalendar ==
    \/ Render
    \/ ClickCell
    \/ ClickModal
    \/ NextYear
    \/ PreviousYear
    \/ FetchSettles
    \/ BodySettles
    \/ RunThen

SpecCalendar == InitCalendar /\ [][NextCalendar]_vars

-----------------------------------------------------------------------------
(* The year of the calendar on its own, next to the year 0 *)

EarlyYears == 0..2

InitYear ==
    /\ env = Shown(CalendarBodies, "lifecycle", EarlyYears, 0)
    /\ FreshIn({<<>>}, {y \in env.years : y > 0})
    /\ kind = "CalendarDensity"

NextYearOnly ==
    \/ SetYear
    \/ NextYear
    \/ PreviousYear
    \/ FetchSettles
    \/ BodySettles
    \/ RunThen

SpecYear == InitYear /\ [][NextYearOnly]_vars

-----------------------------------------------------------------------------
(* Properties *)

ObtainCalls == {"obtain_datas", "obtain_datas_by_year"}
FailureSettles == {"settle_transport_error", "settle_http_500",
                   "settle_http_error", "settle_parse_error",
                   "settle_not_array", "settle_transform_threw"}
RenderCalls == {"render", "then_render"}
NoFloatingNode == tooltips = 0 /\ modals = 0

\* C1: at most one request is in flight at any time, and a call of
\* obtain_datas() or obtain_datas_by_year() made while the flag is set issues
\* no request, changes no state and returns normally.
C1_SingleFlight ==
    [][/\ Len(inflight) <= 1
       /\ Len(inflight') <= 1
       /\ (isLoading /\ lastOp' \in ObtainCalls) =>
            /\ outcome' = "dropped"
            /\ UNCHANGED <<kind, env, ViewVars, prefixeAPI, datas, isLoading,
                           year, inflight, microtasks, SizeVars, DomVars,
                           destroyed>>]_vars

\* a second call has been dropped while the first request is still pending
C1_Witness ==
    /\ lastOp \in ObtainCalls
    /\ outcome = "dropped"
    /\ Len(inflight) = 1

\* the flag is set exactly while a request of the instance is in flight
LoadingMatchesInFlight == isLoading <=> inflight # <<>>

\* C2: the loading flag is true from the moment the request is issued and
\* false again once the request has settled, whatever the way it settled, so
\* that a later obtain_datas call issues a new request.
C2_LoadingFlag ==
    [][/\ LoadingMatchesInFlight
       /\ LoadingMatchesInFlight'
       /\ (inflight = <<>> /\ lastOp' \in ObtainCalls) =>
            (outcome' = "pending" /\ Len(inflight') = 1)]_vars

\* a request has just settled on an exception of the transformer, and the
\* flag is clear
C2_Witness ==
    /\ lastOp = "settle_transform_threw"
    /\ ~isLoading
    /\ inflight = <<>>

C4_OneGeneration ==
    (lastOp = "render" /\ outcome = "rendered") => Len(children) = 1

\* C5: the document holds at most one tooltip node and at most one modal
\* node of the instance.
C5_OneFloatingNode == tooltips <= 1 /\ modals <= 1

\* C6: destroy() returns, leaves the host container without children and
\* leaves no tooltip or modal node of the instance in the document.
C6_DestroyClears ==
    lastOp = "destroy" =>
        (outcome = "returned" /\ children = <<>> /\ NoFloatingNode)

\* C7: once destroy() has left the container empty and the document without
\* floating node of the instance, they stay so, also when a fetch started by
\* next_year() or previous_year() settles afterwards.
C7_DestroyIsPermanent ==
    [][(destroyed /\ children = <<>> /\ NoFloatingNode) =>
            (children' = <<>> /\ NoFloatingNode')]_vars

\* C8: after a request answered with HTTP 500 the record list is empty and a
\* following render() does not throw, whatever the container size.
C8_RenderAfterHttp500 ==
    [][lastOp = "settle_http_500" =>
            /\ datas = <<>>
            /\ (lastOp' \in RenderCalls => outcome' # "threw")]_vars

C10_HeightCapped ==
    clientHeight = 0 =>
        /\ kind = "Gantt" => GanttContainerHeight(datas) <= HeightCap
        /\ kind = "StackedHorizontalBar" => StackedContainerHeight(datas) <= HeightCap

-----------------------------------------------------------------------------
(* Properties of the data path *)

\* the request settled after its body parsed and went through the transformer
TransformSettles == {"settle_ok", "settle_transform_threw"}
SettleOps == FailureSettles \cup {"settle_ok"}
DateKinds == {"Gantt", "CalendarDensity"}

\* an optional field that is missing or empty, and one that holds text
MissingOrEmpty(v) == v.t \in {"undefined", "null"} \/ v = JsStr("")
HoldsText(v) == v.t = "string" /\ v.s # ""

TextFieldOk(in, out, default) ==
    /\ MissingOrEmpty(in) => out = JsStr(default)
    /\ HoldsText(in) => out = in
NumberFieldOk(in, out) ==
    /\ in.t \in {"undefined", "null"} => out = JsNum(0)
    /\ in.t = "number" => out = in
\* a date string of the API comes out as the Date of that very day
DateFieldOk(in, out) ==
    (in.t = "string" /\ \E k \in DOMAIN DateStrings : DateStrings[k] = in.s)
        => out.t = "date" /\ out.n \in DOMAIN DateStrings
           /\ DateStrings[out.n] = in.s

DocumentedDefaults(k, item, rec) ==
    CASE k = "Gantt" ->
            /\ TextFieldOk(item.label, rec.label, "Sans titre")
            /\ TextFieldOk(item.color, rec.color, "#666")
            /\ TextFieldOk(item.category, rec.category, "Général")
            /\ TextFieldOk(item.description, rec.description, "")
            /\ DateFieldOk(item.startdatetime, rec.startdatetime)
            /\ DateFieldOk(item.enddatetime, rec.enddatetime)
      [] k = "StackedHorizontalBar" ->
            /\ TextFieldOk(item.label, rec.label, "Sans titre")
            /\ TextFieldOk(item.color, rec.color, "#666")
            /\ TextFieldOk(item.category, rec.category, "Général")
            /\ TextFieldOk(item.description, rec.description, "")
            /\ NumberFieldOk(item.value, rec.value)
      [] OTHER ->
            /\ TextFieldOk(item.label, rec.label, "")
            /\ TextFieldOk(item.description, rec.description, "")
            /\ NumberFieldOk(item.value, rec.value)
            /\ DateFieldOk(item.date, rec.date)

\* C11: for every array payload the transformer returns one record per item,
\* in order; each missing or empty optional field carries its documented
\* default and each field that is present and valid keeps the input's value.
C11_TransformerDefaults ==
    lastOp \in TransformSettles =>
        \A b \in env.bodies :
            /\ Len(datas) = Len(b.items)
            /\ \A i \in DOMAIN b.items :
                    DocumentedDefaults(kind, b.items[i], datas[i])

\* an item whose every field is present with a value of the right type
WellFormed(item) ==
    /\ item.t = "object"
    /\ HoldsText(item.label) /\ HoldsText(item.category)
    /\ HoldsText(item.color) /\ HoldsText(item.description)
    /\ item.value.t = "number"
    /\ \A v \in {item.startdatetime, item.enddatetime, item.date} :
            v.t = "string" /\ \E k \in DOMAIN DateStrings : DateStrings[k] = v.s

\* C12: a successful fetch whose array payload holds one malformed record,
\* or an item that is no object such as null, never discards the batch: the
\* list has one record per item and the well-formed items are unchanged.
C12_BadRecordKeepsBatch ==
    lastOp \in TransformSettles =>
        \A b \in env.bodies :
            /\ Len(datas) = Len(b.items)
            /\ \A i \in DOMAIN b.items :
                    WellFormed(b.items[i]) =>
                        /\ i \in DOMAIN datas
                        /\ datas[i].label = b.items[i].label
                        /\ datas[i].description = b.items[i].description
                        /\ kind # "CalendarDensity" =>
                                /\ datas[i].category = b.items[i].category
                                /\ datas[i].color = b.items[i].color
                        /\ kind # "Gantt" => datas[i].value = b.items[i].value

\* the date fields of a class, and a value new Date() cannot parse
DateFields(k) ==
    CASE k = "Gantt" -> {"startdatetime", "enddatetime"}
      [] k = "CalendarDensity" -> {"date"}
      [] OTHER -> {}
Unparseable(v) ==
    \/ v.t = "undefined"
    \/ v.t = "string" /\ ~\E k \in DOMAIN DateStrings : DateStrings[k] = v.s

\* C13 as stated: after obtain_datas no record holds an invalid timestamp,
\* and a payload with an unparseable date leaves the record list empty.
C13_InvalidDateDiscardsBatch ==
    /\ lastOp \in SettleOps =>
            \A i \in DOMAIN datas : \A f \in DateFields(kind) :
                datas[i][f] # JsInvalidDate
    /\ lastOp \in TransformSettles =>
            \A b \in env.bodies :
                (\E i \in DOMAIN b.items : \E f \in DateFields(kind) :
                    Unparseable(b.items[i][f])) => datas = <<>>

\* C13: after obtain_datas on a Gantt or a CalendarDensity whose payload is an
\* array of objects, the list holds one record per item, and a record holds
\* an Invalid Date exactly where its item's date cannot be parsed: the batch
\* is kept and the invalid timestamp reaches render().
C13_InvalidDateIsKept ==
    (kind \in DateKinds /\ lastOp = "settle_ok") =>
        \A b \in env.bodies :
            /\ Len(datas) = Len(b.items)
            /\ \A i \in DOMAIN b.items : \A f \in DateFields(kind) :
                    Unparseable(b.items[i][f]) <=> datas[i][f] = JsInvalidDate

\* a list of two records, one of them with an invalid timestamp
C13_Witness ==
    /\ kind \in DateKinds
    /\ lastOp = "settle_ok"
    /\ Len(datas) = 2
    /\ \E i \in DOMAIN datas : \E f \in DateFields(kind) :
            datas[i][f] = JsInvalidDate
    /\ \E i \in DOMAIN datas : \A f \in DateFields(kind) :
            datas[i][f].t = "date"

-----------------------------------------------------------------------------
(* Properties of direct injection *)

\* C14: set_datas(records) replaces the record list with the given array and
\* does nothing else: no request is issued, and the loading flag, the source
\* prefix, the year and the DOM keep their values.
C14_SetDatasOnlyReplaces ==
    [][lastOp' = "set_datas" =>
        /\ datas' \in HostLists
        /\ UNCHANGED <<inflight, isLoading, prefixeAPI, year, microtasks,
                       DomVars, ViewVars>>]_vars

\* a list injected over an earlier one while a request is pending and a
\* chart is mounted
C14_Witness ==
    /\ lastOp = "set_datas"
    /\ datas # <<>>
    /\ isLoading
    /\ Len(inflight) = 1
    /\ children # <<>>

-----------------------------------------------------------------------------
(* Properties of the geometry *)

\* a render call has just drawn a chart of the record list
JustDrawn(k) == kind = k /\ lastOp \in RenderCalls /\ outcome = "rendered"

\* where a category appears first in a list
FirstAt(ds, c) ==
    CHOOSE i \in DOMAIN ds :
        ds[i].category = c /\ \A j \in 1..(i - 1) : ds[j].category # c
\* the segments of a label among the rects ms, and the one before segment b
SegmentsOf(ms, label) == {a \in DOMAIN ms : ms[a].label = label}
Previous(ms, b) ==
    {a \in SegmentsOf(ms, ms[b].label) :
        a < b /\ \A c \in SegmentsOf(ms, ms[b].label) : c < b => c <= a}

\* the rects ms lay the list ds out as a stack
StackLayout(ds, ms) ==
    \A n \in DOMAIN ds :
        LET label == ds[n].label
            segs == SegmentsOf(ms, label)
        IN \* one segment per category of the list, in the order in which the
           \* categories first appear
           /\ \A m \in DOMAIN ds :
                Cardinality({a \in segs : ms[a].key = ds[m].category}) = 1
           /\ \A a, b \in segs :
                a < b <=> FirstAt(ds, ms[a].key) < FirstAt(ds, ms[b].key)
           /\ \A b \in segs :
                \* the first starts at 0, a later one where the previous ends
                /\ Previous(ms, b) = {} => ms[b].from = 0
                /\ \A a \in Previous(ms, b) : ms[b].from = ms[a].to
                \* its length is the value of its record, 0 without a record
                /\ \A m \in DOMAIN ds :
                        (ds[m].label = label /\ ds[m].category = ms[b].key)
                            => ms[b].to - ms[b].from = ds[m].value.n
                /\ (~\E m \in DOMAIN ds :
                        ds[m].label = label /\ ds[m].category = ms[b].key)
                            => ms[b].to = ms[b].from
                \* the last ends at the total of the label
                /\ (\A a \in segs : a <= b) => ms[b].to = ms[b].total

\* C15: for a record list with distinct (label, category) pairs and values
\* that are not negative, the categories are stacked in the order of their
\* first appearance; within a label the first segment starts at 0, each later
\* one starts where the previous ends, each is as long as its record's value
\* (0 without a record), and the last ends at the total of the label that
\* the percentage display divides by.
C15_StackedLayout ==
    JustDrawn("StackedHorizontalBar") => StackLayout(datas, marks)

\* the example A/x=10, A/y=20, B/x=5, B/y=5 drawn: A ends at 30, B at 10
C15_Witness ==
    /\ JustDrawn("StackedHorizontalBar")
    /\ datas = StackedExample
    /\ \E a, b \in DOMAIN marks :
        /\ marks[a].label = JsStr("A") /\ marks[a].key = JsStr("y")
        /\ marks[a].from = 10 /\ marks[a].to = 30 /\ marks[a].total = 30
        /\ marks[b].label = JsStr("B") /\ marks[b].key = JsStr("y")
        /\ marks[b].from = 5 /\ marks[b].to = 10 /\ marks[b].total = 10

\* C16: the scale factor of the Gantt zoom is always within [0.5, 20]: a
\* requested factor of 0.3 gives exactly 0.5 and a requested factor of 50
\* gives exactly 20.
C16_ZoomScaleClamped ==
    /\ ~Less(transform.k, Frac(1, 2))
    /\ ~Less(Whole(20), transform.k)
    /\ (lastOp = "zoom" /\ outcome = "wheel 3/10") => transform.k = Frac(1, 2)
    /\ (lastOp = "zoom" /\ outcome = "wheel 50/1") => transform.k = Whole(20)

\* the wheel asked for 50 on a chart that had been zoomed before
C16_Witness ==
    /\ lastOp = "zoom"
    /\ outcome = "wheel 50/1"
    /\ zoomEvents = 2
    /\ transform.k = Whole(20)

\* C17: after every zoom event with transform T, x of each bar is
\* T.rescaleX(baseScale)(start) and its width is T.rescaleX(baseScale)(end)
\* - T.rescaleX(baseScale)(start), with baseScale the scale built by the
\* render that drew the chart (a value that is not a number is drawn as 0);
\* y and height of the bars are unchanged.
C17_ZoomRescalesFromBase ==
    [][lastOp' = "zoom" =>
        /\ baseScale' = baseScale
        /\ DOMAIN marks' = DOMAIN marks
        /\ \A i \in DOMAIN marks :
            LET rescaled == RescaleX(transform', baseScale)
                xStart == ScaleApply(rescaled,
                                     TimeValue(marks[i].datum.startdatetime))
                xEnd == ScaleApply(rescaled,
                                   TimeValue(marks[i].datum.enddatetime))
            IN /\ marks'[i].x = ZeroIfNaN(xStart)
               /\ marks'[i].width = ZeroIfNaN(Minus(xEnd, xStart))
               /\ marks'[i].y = marks[i].y
               /\ marks'[i].height = marks[i].height
               /\ marks'[i].datum = marks[i].datum]_vars

\* a second zoom event has moved and resized a bar of a chart of two tasks
C17_Witness ==
    /\ lastOp = "zoom"
    /\ zoomEvents = 2
    /\ transform.k = Whole(2)
    /\ Len(marks) = 2
    /\ \E i \in DOMAIN marks :
        /\ marks[i].x # BarX(baseScale, marks[i].datum)
        /\ marks[i].width # BarWidth(baseScale, marks[i].datum)
        /\ marks[i].width # Whole(0)

\* the rects of two labels, and the place where a label appears first
RectsOf(a, b) ==
    {<<i, j>> \in (DOMAIN marks) \X (DOMAIN marks) :
        marks[i].label = a /\ marks[j].label = b}
FirstLabelAt(ds, l) == CHOOSE i \in DOMAIN ds :
    ds[i].label = l /\ \A j \in 1..(i - 1) : ds[j].label # l
LabelsOf(ds) == {ds[i].label : i \in DOMAIN ds}

\* C22 as stated: the band of a label with a larger total is above the band
\* of a label with a smaller total, and labels with equal totals keep the
\* order of their first appearance.
C22_BandsByTotalThenAppearance ==
    JustDrawn("StackedHorizontalBar") =>
        \A a, b \in LabelsOf(datas) : \A ij \in RectsOf(a, b) :
            /\ TotalsByLabel(datas, a) > TotalsByLabel(datas, b)
                    => Less(marks[ij[1]].y, marks[ij[2]].y)
            /\ (/\ TotalsByLabel(datas, a) = TotalsByLabel(datas, b)
                /\ FirstLabelAt(datas, a) < FirstLabelAt(datas, b))
                    => Less(marks[ij[1]].y, marks[ij[2]].y)

\* C22: in the stacked chart the band of a label with a larger total is
\* above the band of a label with a smaller total, and of two labels with
\* equal totals the one that comes first in the order of the label strings
\* is above, wherever they appear in the list.
C22_BandsByTotalThenLabel ==
    JustDrawn("StackedHorizontalBar") =>
        \A a, b \in LabelsOf(datas) : \A ij \in RectsOf(a, b) :
            /\ TotalsByLabel(datas, a) > TotalsByLabel(datas, b)
                    => Less(marks[ij[1]].y, marks[ij[2]].y)
            /\ (/\ TotalsByLabel(datas, a) = TotalsByLabel(datas, b)
                /\ LabelBefore(a, b))
                    => Less(marks[ij[1]].y, marks[ij[2]].y)

\* a chart of two labels in which the label that appears second has the
\* larger total and the upper band
C22_Witness ==
    /\ JustDrawn("StackedHorizontalBar")
    /\ Len(datas) = 3
    /\ datas[1].label = JsStr("A")
    /\ TotalsByLabel(datas, JsStr("A")) = 5
    /\ TotalsByLabel(datas, JsStr("B")) = 15
    /\ \A i \in DOMAIN marks :
            /\ marks[i].label = JsStr("B") => marks[i].y = Frac(30, 13)
            /\ marks[i].label = JsStr("A") => marks[i].y = Frac(405, 13)

\* a task whose two timestamps are valid
ValidTask(d) == d.startdatetime.t = "date" /\ d.enddatetime.t = "date"

\* C21: at render time and after any zoom event, x and width of a Gantt bar
\* are never NaN; a record with an invalid start gets x = 0 and width = 0,
\* one with an invalid end gets width = 0, and x and width of every valid
\* record are what they would be if the malformed records were absent from
\* the list the scale is built from.
C21_MalformedBarsLeaveOthersAlone ==
    (kind = "Gantt" /\ marks # <<>>) =>
        LET scale == RescaleX(transform,
                              CreateTimeScale(SelectSeq(datas, ValidTask),
                                              clientWidth))
        IN \A i \in DOMAIN marks :
            LET d == marks[i].datum IN
            /\ ~IsNaN(marks[i].x)
            /\ ~IsNaN(marks[i].width)
            /\ d.startdatetime.t # "date" =>
                    (marks[i].x = Whole(0) /\ marks[i].width = Whole(0))
            /\ d.enddatetime.t # "date" => marks[i].width = Whole(0)
            /\ ValidTask(d) =>
                    /\ marks[i].x = BarX(scale, d)
                    /\ marks[i].width = BarWidth(scale, d)

\* C28: every Gantt bar has a width that is not negative, at render time and
\* after any zoom: a task that ends before it starts is drawn with width 0.
C28_WidthNotNegative ==
    (kind = "Gantt" /\ marks # <<>>) =>
        \A i \in DOMAIN marks :
            /\ ~Less(marks[i].width, Whole(0))
            /\ (ValidTask(marks[i].datum)
                /\ marks[i].datum.enddatetime.n < marks[i].datum.startdatetime.n)
                    => marks[i].width = Whole(0)

-----------------------------------------------------------------------------
(* Properties of the calendar's navigation and of an aborted render *)

NavigationCalls == {"next_year", "previous_year"}

\* C18: every call of next_year() (previous_year()) changes the year by
\* exactly +1 (-1) and issues one request to /{prefix}?year={new year}, also
\* when the call is made while an earlier fetch is still pending.
C18_NavigationFetchesNewYear ==
    [][lastOp' \in NavigationCalls =>
        /\ year' = year + (IF lastOp' = "next_year" THEN 1 ELSE -1)
        /\ Len(inflight') = Len(inflight) + 1
        /\ inflight'[Len(inflight')].url = UrlByYear(year')]_vars

\* C19: each call of next_year() or previous_year() causes two renders: one
\* inside the call, showing the new year with the list as it was, and one
\* that runs only after the fetch of that call has settled, showing the
\* list that fetch produced.
C19_RenderThenRenderAfterFetch ==
    [][/\ lastOp' \in NavigationCalls =>
            /\ outcome' = "rendered"
            /\ datas' = datas
            /\ children' = <<children'[1]>>
            /\ children'[1].yr = year'
            /\ Len(inflight') + microtasks' = Len(inflight) + microtasks + 1
       /\ lastOp' = "then_render" =>
            /\ lastOp \in SettleOps
            /\ outcome' = "rendered"
            /\ datas' = datas]_vars

\* C20: a Gantt.render() that aborts on the minimum-dimension check (width
\* below 400 or height below 200) returns without raising and changes
\* nothing: the children of the host container, the record list and the
\* document body are as before the call.
C20_GanttAbortChangesNothing ==
    [][(/\ kind = "Gantt"
        /\ lastOp' \in RenderCalls
        /\ \/ clientWidth < MIN_WIDTH
           \/ GanttContainerHeight(datas) < MIN_HEIGHT) =>
        /\ outcome' = "aborted"
        /\ UNCHANGED <<DomVars, datas, ViewVars, isLoading, inflight,
                       microtasks, prefixeAPI>>]_vars

\* a render has aborted on a container that holds a chart drawn earlier
C20_Witness ==
    /\ kind = "Gantt"
    /\ lastOp = "render"
    /\ outcome = "aborted"
    /\ children # <<>>
    /\ tooltips > 0
    /\ datas # <<>>

-----------------------------------------------------------------------------
(* Properties of requests that overlap other calls *)

\* C24: after any interleaving of next_year() and previous_year() calls and
\* fetch completions, once no fetch is pending the record list comes from a
\* request made for the stored year: the request of a navigation that
\* settles last was made for the year the instance holds.
C24_DataOfStoredYear ==
    [][(/\ lastOp' \in SettleOps
        /\ inflight' = <<>>
        /\ \A i \in DOMAIN inflight : inflight[i].nav) =>
            \A i \in DOMAIN inflight : inflight[i].url = UrlByYear(year')]_vars

\* the lists a request may leave: the empty list on a failure, the
\* transformed body otherwise
Produced(how) ==
    IF how \in FailureSettles THEN {<<>>}
    ELSE {TransformRawData(kind, b).val :
            b \in {c \in env.bodies : c.isArray /\ ~TransformRawData(kind, c).threw}}

\* C25 as stated: a list injected with set_datas() while a request of the
\* instance is pending is still the record list after the request settles.
C25_InjectedListSurvives ==
    [][(lastOp = "set_datas" /\ isLoading /\ lastOp' \in SettleOps) =>
            datas' = datas]_vars

\* C25: a list injected with set_datas() while a request of the instance is
\* pending is held until that request settles and is then replaced: the
\* record list is the transformed response, or the empty list on a failure,
\* whatever was injected.
C25_SettleReplacesInjected ==
    [][(lastOp = "set_datas" /\ isLoading /\ lastOp' \in SettleOps) =>
            datas' \in Produced(lastOp')]_vars

\* a list has been injected while the body of the response is awaited
C25_Witness ==
    /\ lastOp = "set_datas"
    /\ datas # <<>>
    /\ Len(inflight) = 1
    /\ inflight[1].stage = "parsing"
    /\ \E b \in env.bodies :
            /\ ~TransformRawData(kind, b).threw
            /\ TransformRawData(kind, b).val \notin {<<>>, datas}

\* C26: StackedHorizontalBar.render() completes without throwing for every
\* record list that is not empty, also when records share label and
\* category.
C26_StackedRenderNeverThrows ==
    (kind = "StackedHorizontalBar" /\ lastOp \in RenderCalls /\ datas # <<>>)
        => outcome # "threw"

-----------------------------------------------------------------------------
(* Properties of the calendar *)

\* a call has drawn the calendar
DrawingCalls == RenderCalls \cup NavigationCalls

ShownText(v, none) == IF v = JsStr("") THEN JsStr(none) ELSE v

OneEntryPerDay(y, ds, entries) ==
    /\ Len(entries) = DaysOfYear(y)
    /\ \A i \in DOMAIN entries :
        LET day == FirstDayOfYear(y) + i - 1
            hits == {j \in DOMAIN ds : ds[j].date = JsDate(day)}
        IN IF hits # {}
           THEN \E j \in hits :
                    /\ \A k \in hits : j <= k
                    /\ entries[i] = ds[j]
           ELSE entries[i] = Placeholder(LocalMidnight(day))

\* C27: generateYearCalendarData(year, existingData) returns one entry per
\* day of the year (365, or 366 in a leap year), in ascending order of the
\* days: the first record of existingData dated that day if there is one,
\* and otherwise a placeholder with value null, an empty description and the
\* label "pas d'infos"; records dated outside the year do not appear.
C27_OneEntryPerDayOfYear ==
    (lastOp \in DrawingCalls /\ outcome = "rendered") =>
        OneEntryPerDay(year, datas, [i \in DOMAIN marks |-> marks[i].datum])

\* steps of a fetch that goes on in the background
BackgroundOps == SettleOps \cup {"response", "then_render"}

C30_YearStaysPositive ==
    /\ [](kind = "CalendarDensity" => year > 0)
    /\ [][lastOp' = "set_year" =>
            \A v \in YearArguments :
                (outcome' = ToString(v) /\ ~(v.t = "number" /\ v.n > 0))
                    => year' = year]_vars

====
